---- MODULE Spec2Model ----
(***************************************************************************)
(* Model of agent_module/agent.py: the article fetch / score / rank        *)
(* pipeline (get_article_content, fetch_article_content,                   *)
(* fetch_and_filter_articles).                                             *)
(*                                                                         *)
(* Representation of Python values                                         *)
(*   str (title, query, keyword)  a tuple of one-character strings         *)
(*   long text (article body)     [s |-> tuple of characters, pad |-> n]:  *)
(*                                the characters of s followed by n filler *)
(*                                characters "." that occur in no keyword  *)
(*   optional struct_time         <<>> for None, <<t>> for a time, t in    *)
(*                                hours since the epoch                    *)
(*   link                         a string; "" is the missing/empty link   *)
(***************************************************************************)
EXTENDS Integers, Sequences, FiniteSets, TLC

(***************************************************************************)
(* Program constants                                                       *)
(***************************************************************************)
\* feed_urls holds two feed addresses.
NumFeeds ==
    2

max_articles_per_feed ==
    15

max_results ==
    10

max_workers ==
    8

\* len(content) > 100: the substance threshold of every extraction stage.
MinContentLen ==
    100

\* The list `selectors` of get_article_content has eight selectors.
NumSelectors ==
    8

\* age_hours < 24 and age_hours < 168.
DayHours ==
    24

WeekHours ==
    168

(***************************************************************************)
(* Bounds of the model                                                     *)
(***************************************************************************)
\* time.time() of the run, in hours.
Now ==
    1000

\* Completions and collections that may happen out of submission order.
MaxReorder ==
    2

(***************************************************************************)
(* Strings: str.lower, str.split, str.count                                *)
(***************************************************************************)
LowerChar(c) ==
    CASE c = "A" -> "a"
      [] c = "B" -> "b"
      [] OTHER -> c

Lower(s) ==
    [i \in 1..Len(s) |-> LowerChar(s[i])]

IsSpace(c) ==
    c = " "

\* str.split(): the maximal runs of non-whitespace characters, in order.
RECURSIVE SplitFrom(_, _, _)
SplitFrom(s, i, cur) ==
    IF i > Len(s)
    THEN IF cur = <<>> THEN <<>> ELSE <<cur>>
    ELSE IF IsSpace(s[i])
         THEN (IF cur = <<>> THEN <<>> ELSE <<cur>>) \o SplitFrom(s, i + 1, <<>>)
         ELSE SplitFrom(s, i + 1, Append(cur, s[i]))

Split(s) ==
    SplitFrom(s, 1, <<>>)

IsPrefix(kw, s) ==
    /\ Len(kw) <= Len(s)
    /\ \A i \in 1..Len(kw) : s[i] = kw[i]

\* str.count(kw): the number of non-overlapping occurrences, left to right.
RECURSIVE Count(_, _)
Count(s, kw) ==
    IF Len(kw) = 0 THEN Len(s) + 1
    ELSE IF Len(s) < Len(kw) THEN 0
    ELSE IF IsPrefix(kw, s)
         THEN 1 + Count(SubSeq(s, Len(kw) + 1, Len(s)), kw)
         ELSE Count(Tail(s), kw)

RECURSIVE SumCounts(_, _, _)
SumCounts(s, keywords, i) ==
    IF i > Len(keywords) THEN 0
    ELSE Count(s, keywords[i]) + SumCounts(s, keywords, i + 1)

(***************************************************************************)
(* Long texts                                                              *)
(***************************************************************************)
Text(s, pad) ==
    [s |-> s, pad |-> pad]

EmptyText ==
    Text(<<>>, 0)

TextLen(t) ==
    Len(t.s) + t.pad

\* Truth value of a str: non-empty.
Truthy(t) ==
    TextLen(t) > 0

(***************************************************************************)
(* get_article_content(url).  A page is what the network serves for url:   *)
(*   primary_raises   newspaper's download/parse raises                    *)
(*   primary          the text newspaper extracts                          *)
(*   request_raises   requests.get raises                                  *)
(*   selectors        per selector <<>> (select_one finds nothing) or      *)
(*                    <<text>>                                             *)
(*   paragraphs       the joined text of all <p> elements                  *)
(* The value is [content, stages]: the returned str and the stages that    *)
(* were attempted.                                                         *)
(***************************************************************************)
\* Mutation: the threshold test is >= instead of >.
SubstantialAtLeast(t) ==
    Truthy(t) /\ TextLen(t) >= MinContentLen

Substantial(t) ==
    Truthy(t) /\ TextLen(t) > MinContentLen

RECURSIVE SelectorScan(_, _)
SelectorScan(sels, i) ==
    IF i > Len(sels) THEN <<>>
    ELSE IF sels[i] # <<>> /\ TextLen(sels[i][1]) > MinContentLen
         THEN sels[i]
         ELSE SelectorScan(sels, i + 1)

ExtractRun(page) ==
    IF page.primary_raises
    THEN [content |-> EmptyText, stages |-> <<"primary">>]
    ELSE IF Substantial(page.primary)
    THEN [content |-> page.primary, stages |-> <<"primary">>]
    ELSE IF page.request_raises
    THEN [content |-> EmptyText, stages |-> <<"primary", "selectors">>]
    ELSE IF SelectorScan(page.selectors, 1) # <<>>
    THEN [content |-> SelectorScan(page.selectors, 1)[1],
          stages |-> <<"primary", "selectors">>]
    ELSE IF Substantial(page.paragraphs)
    THEN [content |-> page.paragraphs,
          stages |-> <<"primary", "selectors", "paragraphs">>]
    ELSE [content |-> EmptyText,
          stages |-> <<"primary", "selectors", "paragraphs">>]

get_article_content(page) ==
    ExtractRun(page).content

(***************************************************************************)
(* fetch_article_content(entry, keywords)                                  *)
(***************************************************************************)
\* entry.get("content", "") normalised to one str: a list is joined by " ".
RECURSIVE JoinItems(_, _)
JoinItems(items, i) ==
    IF i > Len(items) THEN <<>>
    ELSE IF i = Len(items) THEN items[i]
    ELSE items[i] \o <<" ">> \o JoinItems(items, i + 1)

InitialContent(entry) ==
    IF entry.content.list
    THEN JoinItems(entry.content.items, 1)
    ELSE entry.content.items[1]

\* entry.get('published_parsed') or entry.get('updated_parsed')
PublishDate(entry) ==
    IF entry.published_parsed # <<>>
    THEN entry.published_parsed
    ELSE entry.updated_parsed

\* time.mktime raises OverflowError for a time outside the range the platform
\* can represent; the times below 0 stand for these.
MktimeRaises(pd) ==
    pd[1] < 0

RecencyScore(pd) ==
    IF pd = <<>> THEN 0
    ELSE IF Now - pd[1] < DayHours THEN 5
    ELSE IF Now - pd[1] < WeekHours THEN 3
    ELSE 0

TitleScore(entry, keywords) ==
    SumCounts(Lower(entry.title), keywords, 1) * 10

FinalContent(entry) ==
    IF Truthy(get_article_content(entry.page))
    THEN get_article_content(entry.page)
    ELSE Text(InitialContent(entry), 0)

ContentScore(entry, keywords) ==
    SumCounts(Lower(FinalContent(entry).s), keywords, 1)

TotalScore(entry, keywords) ==
    TitleScore(entry, keywords) + ContentScore(entry, keywords)
        + RecencyScore(PublishDate(entry))

ScoredArticle(entry, keywords) ==
    [title |-> entry.title,
     content |-> FinalContent(entry),
     link |-> entry.link,
     publish_date |-> PublishDate(entry),
     relevance_score |-> TotalScore(entry, keywords),
     match_details |->
        [title_matches |-> TitleScore(entry, keywords) \div 10,
         content_matches |-> ContentScore(entry, keywords),
         recency_bonus |-> RecencyScore(PublishDate(entry))]]

\* Mutation: an entry whose total score is 0 is returned too.
FetchKeepsZeroScore(entry, keywords) ==
    IF entry.link = ""
    THEN [kind |-> "none"]
    ELSE IF PublishDate(entry) # <<>> /\ MktimeRaises(PublishDate(entry))
    THEN [kind |-> "raise"]
    ELSE [kind |-> "article", article |-> ScoredArticle(entry, keywords)]

\* The outcome of one task: kind "none" (returns None), "article" (returns the
\* dict) or "raise" (the exception future.result() re-raises).
fetch_article_content(entry, keywords) ==
    IF entry.link = ""
    THEN [kind |-> "none"]
    ELSE IF PublishDate(entry) # <<>> /\ MktimeRaises(PublishDate(entry))
    THEN [kind |-> "raise"]
    ELSE IF TotalScore(entry, keywords) > 0
    THEN [kind |-> "article", article |-> ScoredArticle(entry, keywords)]
    ELSE [kind |-> "none"]

(***************************************************************************)
(* fetch_and_filter_articles(query): sorting                               *)
(***************************************************************************)
\* key=lambda x: x.get('published_parsed', x.get('updated_parsed'))
FeedSortKey(entry) ==
    IF entry.published_parsed # <<>>
    THEN entry.published_parsed
    ELSE entry.updated_parsed

\* feed.entries[:max_articles_per_feed]
Window(feed_entries) ==
    SubSeq(feed_entries, 1,
           IF Len(feed_entries) < max_articles_per_feed
           THEN Len(feed_entries) ELSE max_articles_per_feed)

\* sorted() compares the keys with <.  None < x and x < None raise TypeError
\* (also None < None), and a sort of two or more elements compares every
\* element with some other one.
FeedSortRaises(window) ==
    /\ Len(window) >= 2
    /\ \E i \in 1..Len(window) : FeedSortKey(window[i]) = <<>>

\* A stable sort with reverse=True: descending, equal keys keep their order.
RECURSIVE InsertByDate(_, _)
InsertByDate(sorted, x) ==
    IF sorted = <<>> THEN <<x>>
    ELSE IF FeedSortKey(Head(sorted))[1] >= FeedSortKey(x)[1]
         THEN <<Head(sorted)>> \o InsertByDate(Tail(sorted), x)
         ELSE <<x>> \o sorted

RECURSIVE SortByDate(_, _)
SortByDate(window, n) ==
    IF n = 0 THEN <<>>
    ELSE InsertByDate(SortByDate(window, n - 1), window[n])

SortedEntries(feed_entries) ==
    IF Len(Window(feed_entries)) <= 1
    THEN Window(feed_entries)
    ELSE SortByDate(Window(feed_entries), Len(Window(feed_entries)))

\* The final sort key is (relevance_score, publish_date, False).  Tuples are
\* compared element by element: equal elements are skipped with ==, the first
\* pair that differs is compared with <.  A struct_time and None differ, and
\* struct_time < None raises TypeError.
RankGE(a, b) ==
    \/ a.relevance_score > b.relevance_score
    \/ /\ a.relevance_score = b.relevance_score
       /\ \/ a.publish_date = b.publish_date
          \/ /\ a.publish_date # <<>>
             /\ b.publish_date # <<>>
             /\ a.publish_date[1] >= b.publish_date[1]

\* A sort that orders the list has to compare, directly or through a chain of
\* equal-score elements, every two elements of equal score: it raises exactly
\* when two of them have equal scores and only one has a publish_date.
RankSortRaises(articles) ==
    \E i, j \in 1..Len(articles) :
        /\ articles[i].relevance_score = articles[j].relevance_score
        /\ articles[i].publish_date = <<>>
        /\ articles[j].publish_date # <<>>

RECURSIVE InsertByRank(_, _)
InsertByRank(sorted, x) ==
    IF sorted = <<>> THEN <<x>>
    ELSE IF RankGE(Head(sorted), x)
         THEN <<Head(sorted)>> \o InsertByRank(Tail(sorted), x)
         ELSE <<x>> \o sorted

RECURSIVE SortByRank(_, _)
SortByRank(articles, n) ==
    IF n = 0 THEN <<>>
    ELSE InsertByRank(SortByRank(articles, n - 1), articles[n])

\* matched_articles[:max_results]
TopN(articles) ==
    SubSeq(articles, 1,
           IF Len(articles) < max_results THEN Len(articles) ELSE max_results)

\* Mutation: the message is built from query_lower.
NoResultsMessageLower(q) ==
    <<"No articles found containing the query '">> \o Lower(q) \o <<"'.">>

NoResultsMessage(q) ==
    <<"No articles found containing the query '">> \o q \o <<"'.">>

\* Lines 213-224: the value returned, or the TypeError of the sort.
FinalResult(q, articles) ==
    IF articles = <<>>
    THEN [kind |-> "message", message |-> NoResultsMessage(q)]
    ELSE IF RankSortRaises(articles)
    THEN [kind |-> "raise", exception |-> "TypeError"]
    ELSE [kind |-> "articles",
          articles |-> TopN(SortByRank(articles, Len(articles)))]

(***************************************************************************)
(* Inputs: pages, entries, feeds and queries of the runs explored          *)
(***************************************************************************)
NoSelectors ==
    [i \in 1..NumSelectors |-> <<>>]

Page(praises, primary, rraises, selectors, paragraphs) ==
    [primary_raises |-> praises, primary |-> primary,
     request_raises |-> rraises, selectors |-> selectors,
     paragraphs |-> paragraphs]

\* newspaper extracts a body of 1 + 101 characters.
PagePrimary ==
    Page(FALSE, Text(<<"a">>, 101), FALSE, NoSelectors, EmptyText)

\* newspaper extracts 50 characters; the third selector matches a short
\* region and the fifth one a region of 102 characters.
PageSelector ==
    Page(FALSE, Text(<<"b">>, 49), FALSE,
         [i \in 1..NumSelectors |->
            IF i = 3 THEN <<Text(<<"b">>, 99)>>
            ELSE IF i = 5 THEN <<Text(<<"a">>, 101)>>
            ELSE <<>>],
         Text(<<"b", "b">>, 200))

\* newspaper extracts exactly 100 characters, no selector region is long
\* enough, the paragraphs have 101 characters.
PageParagraphs ==
    Page(FALSE, Text(<<"a", "a">>, 98), FALSE,
         [i \in 1..NumSelectors |->
            IF i = 1 THEN <<Text(<<"a">>, 99)>> ELSE <<>>],
         Text(<<"a">>, 100))

\* Nothing is long enough anywhere.
PageThin ==
    Page(FALSE, EmptyText, FALSE, NoSelectors, Text(<<"a">>, 99))

PagePrimaryRaises ==
    Page(TRUE, EmptyText, FALSE, NoSelectors, Text(<<"a">>, 200))

PageRequestRaises ==
    Page(FALSE, Text(<<"a">>, 49), TRUE, NoSelectors, Text(<<"a">>, 200))

Str(items) ==
    [list |-> FALSE, items |-> <<items>>]

Fragments(items) ==
    [list |-> TRUE, items |-> items]

Entry(title, content, link, published, updated, page) ==
    [title |-> title, content |-> content, link |-> link,
     published_parsed |-> published, updated_parsed |-> updated,
     page |-> page]

Fresh ==
    <<Now - 1>>

ThisWeek ==
    <<Now - 100>>

Old ==
    <<Now - 500>>

\* A date time.mktime cannot represent.
OutOfRange ==
    <<0 - 1>>

eFresh ==
    Entry(<<"A", " ", "b">>, Str(<<>>), "l1", Fresh, <<>>, PagePrimary)

eOld ==
    Entry(<<"a">>, Str(<<"b", " ", "A">>), "l2", Old, <<>>, PageThin)

eNoDate ==
    Entry(<<"a">>, Str(<<>>), "l3", <<>>, <<>>, PageSelector)

eDup ==
    Entry(<<"b">>, Fragments(<<<<"a">>, <<"b">>>>), "l1", ThisWeek, <<>>,
          PageRequestRaises)

eBadDate ==
    Entry(<<"a">>, Str(<<>>), "l4", OutOfRange, <<>>, PagePrimary)

eNoLink ==
    Entry(<<"a">>, Str(<<"a">>), "", Fresh, <<>>, PagePrimary)

eZero ==
    Entry(<<>>, Str(<<>>), "l5", Old, <<>>, PagePrimaryRaises)

eUpdated ==
    Entry(<<"B">>, Str(<<>>), "l6", <<>>, ThisWeek, PageParagraphs)

SmallFeeds ==
    { <<>>, <<eFresh>>, <<eNoDate>>, <<eOld, eFresh>>, <<eNoDate, eOld>>,
      <<eDup, eFresh>>, <<eDup, eBadDate>>, <<eNoLink, eZero>>,
      <<eUpdated, eOld, eDup>>, <<eZero, eUpdated>> }

\* A feed of sixteen entries listed oldest first: nine links, then six more
\* entries that repeat the first link, then the newest entry of the feed.
LongLinks ==
    <<"b1", "b2", "b3", "b4", "b5", "b6", "b7", "b8", "b9">>

LongFeed ==
    [i \in 1..(max_articles_per_feed + 1) |->
        IF i <= Len(LongLinks)
        THEN Entry(<<"a", "a">>, Str(<<>>), LongLinks[i], <<Now - 600 + i>>,
                   <<>>, PageThin)
        ELSE IF i <= max_articles_per_feed
        THEN Entry(<<"a">>, Str(<<>>), LongLinks[1], <<Now - 600 + i>>,
                   <<>>, PageThin)
        ELSE Entry(<<"a", "a", "a">>, Str(<<>>), "b16", Fresh, <<>>,
                   PageThin)]

\* Three entries with equal title, date and content.
TiedFeed ==
    <<Entry(<<"a">>, Str(<<>>), "c1", Old, <<>>, PageThin),
      Entry(<<"a">>, Str(<<>>), "c2", Old, <<>>, PageThin),
      Entry(<<"a">>, Str(<<>>), "c3", Old, <<>>, PageThin)>>

Queries ==
    { <<"A">>, <<"A", " ", "b">>, <<" ">> }

Scenarios ==
    {[query |-> q, feeds |-> <<f1, f2>>] :
        q \in Queries, f1 \in SmallFeeds, f2 \in SmallFeeds}
    \cup {[query |-> <<"A">>, feeds |-> <<LongFeed, TiedFeed>>]}

(***************************************************************************)
(* fetch_and_filter_articles(query): state                                 *)
(***************************************************************************)
VARIABLES
    query,            \* the argument
    feeds,            \* what feedparser.parse returns for each feed url
    pc,               \* "feeds", "entries", "collect", "done"
    url_idx,          \* index of the feed url of the outer loop
    feed_status,      \* per feed: "todo", "parse_failed", "sort_failed", "ok"
    entries,          \* the sorted entries of the current feed
    entry_idx,        \* index of the inner loop
    seen_links,
    futures,          \* submitted tasks, in submission order
    matched_articles,
    reorders,         \* out-of-order completions and collections so far
    result            \* the value returned, or the exception raised

vars ==
    <<query, feeds, pc, url_idx, feed_status, entries, entry_idx, seen_links,
      futures, matched_articles, reorders, result>>

\* keywords = query.lower().split()
Keywords(q) ==
    Split(Lower(q))

Init ==
    /\ \E sc \in Scenarios : query = sc.query /\ feeds = sc.feeds
    /\ pc = "feeds"
    /\ url_idx = 1
    /\ feed_status = [i \in 1..NumFeeds |-> "todo"]
    /\ entries = <<>>
    /\ entry_idx = 1
    /\ seen_links = {}
    /\ futures = <<>>
    /\ matched_articles = <<>>
    /\ reorders = 0
    /\ result = [kind |-> "pending"]

(***************************************************************************)
(* fetch_and_filter_articles(query): steps                                 *)
(***************************************************************************)
\* The end of one iteration of `for url in feed_urls`.
NextFeed ==
    /\ url_idx' = url_idx + 1
    /\ pc' = IF url_idx + 1 > NumFeeds THEN "collect" ELSE "feeds"
    /\ entries' = <<>>
    /\ entry_idx' = 1

\* feedparser.parse(url) raises: except Exception: continue.
ParseFails ==
    /\ pc = "feeds"
    /\ feed_status' = [feed_status EXCEPT ![url_idx] = "parse_failed"]
    /\ NextFeed
    /\ UNCHANGED <<query, feeds, seen_links, futures, matched_articles,
                   reorders, result>>

\* feedparser.parse(url) returns and sorted(...) raises TypeError, or the
\* feed has no entries: the inner loop has nothing to do.
ParseSkips ==
    /\ pc = "feeds"
    /\ \/ FeedSortRaises(Window(feeds[url_idx]))
       \/ feeds[url_idx] = <<>>
    /\ feed_status' = [feed_status EXCEPT ![url_idx] =
                          IF feeds[url_idx] = <<>> THEN "ok" ELSE "sort_failed"]
    /\ NextFeed
    /\ UNCHANGED <<query, feeds, seen_links, futures, matched_articles,
                   reorders, result>>

\* feedparser.parse(url) returns and the window is sorted.
ParseSorts ==
    /\ pc = "feeds"
    /\ ~FeedSortRaises(Window(feeds[url_idx]))
    /\ feeds[url_idx] # <<>>
    /\ feed_status' = [feed_status EXCEPT ![url_idx] = "ok"]
    /\ entries' = SortedEntries(feeds[url_idx])
    /\ entry_idx' = 1
    /\ pc' = "entries"
    /\ UNCHANGED <<query, feeds, url_idx, seen_links, futures,
                   matched_articles, reorders, result>>

\* Mutation: the membership test in seen_links is missing.
SkippedNoDedup(entry, seen) ==
    entry.link = ""

\* Mutation: the test of a missing link is missing.
SkippedNoLinkTest(entry, seen) ==
    entry.link \in seen

\* if not link or link in seen_links: continue
Skipped(entry, seen) ==
    entry.link = "" \/ entry.link \in seen

NewFuture(entry) ==
    [entry |-> entry, state |-> "pending", outcome |-> [kind |-> "pending"],
     extract |-> [content |-> EmptyText, stages |-> <<>>]]

\* One iteration of `for entry in entries`.
SubmitEntry ==
    /\ pc = "entries"
    /\ LET entry == entries[entry_idx]
       IN  IF Skipped(entry, seen_links)
           THEN UNCHANGED <<seen_links, futures>>
           ELSE /\ seen_links' = seen_links \cup {entry.link}
                /\ futures' = Append(futures, NewFuture(entry))
    /\ IF entry_idx = Len(entries)
       THEN NextFeed
       ELSE /\ entry_idx' = entry_idx + 1
            /\ UNCHANGED <<pc, url_idx, entries>>
    /\ UNCHANGED <<query, feeds, feed_status, matched_articles, reorders,
                   result>>

Indexes(state) ==
    {i \in 1..Len(futures) : futures[i].state = state}

IsFirst(i, state) ==
    \A k \in Indexes(state) : i <= k

\* The pool runs at most max_workers tasks and starts them in submission
\* order: a task can be finished only when fewer than max_workers of the
\* tasks submitted before it are unfinished.
PoolAllows(i) ==
    Cardinality({k \in Indexes("pending") : k < i}) < max_workers

Reorder(in_order) ==
    IF in_order
    THEN reorders' = reorders
    ELSE reorders < MaxReorder /\ reorders' = reorders + 1

\* A worker thread runs fetch_article_content(entry, keywords) to its end;
\* extract records what its call of get_article_content did.
TaskRun(i) ==
    /\ pc \in {"feeds", "entries", "collect"}
    /\ futures[i].state = "pending"
    /\ PoolAllows(i)
    /\ Reorder(IsFirst(i, "pending"))
    /\ futures' = [futures EXCEPT
            ![i].state = "done",
            ![i].extract = ExtractRun(futures[i].entry.page),
            ![i].outcome = fetch_article_content(futures[i].entry,
                                                 Keywords(query))]
    /\ UNCHANGED <<query, feeds, pc, url_idx, feed_status, entries, entry_idx,
                   seen_links, matched_articles, result>>

\* One iteration of `for future in as_completed(futures)`; future.result()
\* re-raises the exception of the task.
Collect(i) ==
    /\ pc = "collect"
    /\ futures[i].state = "done"
    /\ Reorder(IsFirst(i, "done"))
    /\ futures' = [futures EXCEPT ![i].state = "collected"]
    /\ IF futures[i].outcome.kind = "raise"
       THEN /\ result' = [kind |-> "raise", exception |-> "OverflowError"]
            /\ pc' = "done"
            /\ UNCHANGED matched_articles
       ELSE /\ matched_articles' =
                  IF futures[i].outcome.kind = "article"
                  THEN Append(matched_articles, futures[i].outcome.article)
                  ELSE matched_articles
            /\ UNCHANGED <<pc, result>>
    /\ UNCHANGED <<query, feeds, url_idx, feed_status, entries, entry_idx,
                   seen_links>>

\* Mutation: the loop over as_completed is left before every future has been
\* yielded.
ReturnEarly ==
    /\ pc = "collect"
    /\ result' = FinalResult(query, matched_articles)
    /\ pc' = "done"
    /\ UNCHANGED <<query, feeds, url_idx, feed_status, entries, entry_idx,
                   seen_links, futures, matched_articles, reorders>>

\* as_completed is exhausted: lines 213-224.
Return ==
    /\ pc = "collect"
    /\ \A i \in 1..Len(futures) : futures[i].state = "collected"
    /\ result' = FinalResult(query, matched_articles)
    /\ pc' = "done"
    /\ UNCHANGED <<query, feeds, url_idx, feed_status, entries, entry_idx,
                   seen_links, futures, matched_articles, reorders>>

Next ==
    \/ ParseFails
    \/ ParseSkips
    \/ ParseSorts
    \/ SubmitEntry
    \/ \E i \in 1..Len(futures) : TaskRun(i)
    \/ \E i \in 1..Len(futures) : Collect(i)
    \/ Return

Spec ==
    Init /\ [][Next]_vars

(***************************************************************************)
(* Properties                                                              *)
(***************************************************************************)
Returned ==
    pc = "done" /\ result.kind # "raise"

Range(seq) ==
    {seq[i] : i \in 1..Len(seq)}

LinksOf(articles) ==
    {articles[i].link : i \in 1..Len(articles)}

\* The entries the loops go through, feed by feed, in the order of the inner
\* loop; the feeds whose parse or sort raised contribute none.
RECURSIVE LoopOrder(_)
LoopOrder(n) ==
    IF n = 0 THEN <<>>
    ELSE LoopOrder(n - 1)
         \o (IF feed_status[n] = "ok" THEN SortedEntries(feeds[n]) ELSE <<>>)

FirstWithLink(order, link) ==
    order[CHOOSE i \in 1..Len(order) :
            /\ order[i].link = link
            /\ \A k \in 1..(i - 1) : order[k].link # link]

\* C1: no two articles of the returned list have the same link, and the
\* article returned for a link is the one built from the first entry with
\* that link in feed-list / entry-loop order.
DedupFirstClaimed ==
    (pc = "done" /\ result.kind = "articles") =>
        /\ \A i, j \in 1..Len(result.articles) :
              i # j => result.articles[i].link # result.articles[j].link
        /\ \A i \in 1..Len(result.articles) :
              LET a == result.articles[i]
                  order == LoopOrder(NumFeeds)
              IN  /\ \E k \in 1..Len(order) : order[k].link = a.link
                  /\ a.title = FirstWithLink(order, a.link).title
                  /\ a.publish_date =
                        PublishDate(FirstWithLink(order, a.link))

\* A returned article whose link occurs in two different entries of the loop
\* order.
DedupWitness ==
    /\ pc = "done"
    /\ result.kind = "articles"
    /\ LET order == LoopOrder(NumFeeds)
       IN  \E i \in 1..Len(result.articles) :
             \E k, m \in 1..Len(order) :
                /\ k < m
                /\ order[k].link = result.articles[i].link
                /\ order[m].link = result.articles[i].link
                /\ order[k].title # order[m].title

ReturnShape ==
    Returned =>
        IF \E k \in 1..Len(futures) : futures[k].outcome.kind = "article"
        THEN /\ result.kind = "articles"
             /\ Len(result.articles) >= 1
             /\ Len(result.articles) <= 10
             /\ \A i \in 1..Len(result.articles) :
                   \E k \in 1..Len(futures) :
                      /\ futures[k].outcome.kind = "article"
                      /\ futures[k].outcome.article = result.articles[i]
        ELSE /\ result.kind = "message"
             /\ Len(result.message) = Len(query) + 2
             /\ SubSeq(result.message, 2, Len(query) + 1) = query

\* The informational record is returned for a query with an upper-case
\* letter, after tasks ran.
ReturnShapeWitness ==
    /\ Returned
    /\ result.kind = "message"
    /\ query # Lower(query)
    /\ futures # <<>>

IsArticle(f) ==
    f.outcome.kind = "article"

ArticleOfFuture(f) ==
    f.outcome.article

RECURSIVE ArticlesInSubmissionOrder(_)
ArticlesInSubmissionOrder(n) ==
    IF n = 0 THEN <<>>
    ELSE ArticlesInSubmissionOrder(n - 1)
         \o (IF IsArticle(futures[n]) THEN <<ArticleOfFuture(futures[n])>>
             ELSE <<>>)

\* C4: the links of the returned list do not depend on the order in which
\* the tasks complete and are collected: they are the links returned when
\* the results are collected in submission order.
CompletionOrderIrrelevant ==
    (pc = "done" /\ result.kind = "articles") =>
        LinksOf(result.articles) =
            LinksOf(FinalResult(query,
                        ArticlesInSubmissionOrder(Len(futures))).articles)

\* C5: whatever the feeds' parse outcomes and the tasks' outcomes, the run
\* returns normally.
RunReturnsNormally ==
    pc = "done" => result.kind # "raise"

\* C6: once the loop is through a feed that was parsed, every entry of its
\* window that has a link and no published or updated time has its link
\* claimed, and such an entry is scored with a recency bonus of 0.
NoDateEntryKept ==
    /\ \A f \in 1..NumFeeds :
          (f < url_idx /\ feed_status[f] \in {"ok", "sort_failed"}) =>
              \A i \in 1..Len(Window(feeds[f])) :
                 LET e == Window(feeds[f])[i]
                 IN  (e.link # "" /\ PublishDate(e) = <<>>)
                        => e.link \in seen_links
    /\ \A k \in 1..Len(futures) :
          (IsArticle(futures[k]) /\ PublishDate(futures[k].entry) = <<>>)
             => ArticleOfFuture(futures[k]).match_details.recency_bonus = 0

MinOf(a, b) ==
    IF a < b THEN a ELSE b

\* C7: when every task returned and some returned an article, the list
\* returned is the first max_results candidates in descending order of
\* (relevance_score, publish_date).
RankedTopTen ==
    (/\ pc = "done"
     /\ matched_articles # <<>>
     /\ \A k \in 1..Len(futures) : futures[k].outcome.kind # "raise")
    => /\ result.kind = "articles"
       /\ Len(result.articles) = MinOf(10, Len(matched_articles))
       /\ Range(result.articles) \subseteq Range(matched_articles)
       /\ \A i \in 1..(Len(result.articles) - 1) :
             LET a == result.articles[i]
                 b == result.articles[i + 1]
             IN  /\ a.relevance_score >= b.relevance_score
                 /\ (/\ a.relevance_score = b.relevance_score
                     /\ a.publish_date # <<>>
                     /\ b.publish_date # <<>>)
                    => a.publish_date[1] >= b.publish_date[1]
       /\ \A x \in Range(matched_articles) \ Range(result.articles) :
             \A i \in 1..Len(result.articles) :
                x.relevance_score <= result.articles[i].relevance_score

\* C8 as stated: no link is added to seen_links once a task has been
\* submitted.
SeenSetPrePass ==
    [][seen_links' # seen_links => futures = <<>>]_vars

\* C8 as amended: a link enters seen_links only in the submit loop, in the
\* step that submits the task of its entry; it is a non-empty link that was
\* not in the set; the set does not change once collecting has begun.
SeenSetWithSubmit ==
    [][/\ seen_links' # seen_links =>
            /\ pc = "entries"
            /\ Len(futures') = Len(futures) + 1
            /\ futures'[Len(futures')].state = "pending"
            /\ futures'[Len(futures')].entry.link # ""
            /\ futures'[Len(futures')].entry.link \notin seen_links
            /\ seen_links' =
                  seen_links \cup {futures'[Len(futures')].entry.link}
       /\ Len(futures') # Len(futures) => seen_links' # seen_links
       /\ pc \in {"collect", "done"} => seen_links' = seen_links]_vars

\* The loop is about to claim a new link although a task submitted earlier
\* has already finished.
SeenSetWitness ==
    /\ pc = "entries"
    /\ ~Skipped(entries[entry_idx], seen_links)
    /\ \E k \in 1..Len(futures) : futures[k].state = "done"

\* C9: no entry of a feed is left out of the entries the loop considers
\* while a considered entry of the same feed is strictly older.
MostRecentWindow ==
    pc = "entries" =>
        \A i \in 1..Len(feeds[url_idx]) :
           feeds[url_idx][i] \notin Range(entries) =>
              \A k \in 1..Len(entries) :
                 ~(FeedSortKey(feeds[url_idx][i])[1]
                      > FeedSortKey(entries[k])[1])

\* The texts of the stages in the order they are tried, with the selector
\* regions that exist.
LongEnough(t) ==
    TextLen(t) > 100

FirstLongSelector(page) ==
    page.selectors[CHOOSE i \in 1..Len(page.selectors) :
        /\ page.selectors[i] # <<>>
        /\ LongEnough(page.selectors[i][1])
        /\ \A k \in 1..(i - 1) :
              page.selectors[k] = <<>> \/ ~LongEnough(page.selectors[k][1])][1]

SomeLongSelector(page) ==
    \E i \in 1..Len(page.selectors) :
        page.selectors[i] # <<>> /\ LongEnough(page.selectors[i][1])

\* C10: get_article_content tries primary, selectors, paragraphs in this
\* order and returns the text of the first stage with more than 100
\* characters; a primary text of at most 100 characters leads to the
\* fallback stages; when a stage raises or no stage has more than 100
\* characters it returns the empty string.
ExtractionStages ==
    \A k \in 1..Len(futures) :
       futures[k].state # "pending" =>
          LET page == futures[k].entry.page
              got == futures[k].extract
          IN  /\ \E n \in 1..3 :
                    got.stages = SubSeq(<<"primary", "selectors", "paragraphs">>, 1, n)
              /\ (got.content # EmptyText) => LongEnough(got.content)
              /\ page.primary_raises =>
                    got.content = EmptyText /\ got.stages = <<"primary">>
              /\ (~page.primary_raises /\ LongEnough(page.primary)) =>
                    got.content = page.primary /\ got.stages = <<"primary">>
              /\ (~page.primary_raises /\ ~LongEnough(page.primary)) =>
                    /\ Len(got.stages) >= 2
                    /\ page.request_raises => got.content = EmptyText
                    /\ (~page.request_raises /\ SomeLongSelector(page)) =>
                          /\ got.content = FirstLongSelector(page)
                          /\ Len(got.stages) = 2
                    /\ (~page.request_raises /\ ~SomeLongSelector(page)) =>
                          /\ Len(got.stages) = 3
                          /\ got.content =
                                IF LongEnough(page.paragraphs)
                                THEN page.paragraphs ELSE EmptyText

\* A task whose primary extraction gave 50 characters and whose content came
\* from a selector region after a shorter region was passed over.
ExtractionWitness ==
    \E k \in 1..Len(futures) :
       /\ futures[k].state # "pending"
       /\ ~futures[k].entry.page.primary_raises
       /\ TextLen(futures[k].entry.page.primary) = 50
       /\ futures[k].extract.stages = <<"primary", "selectors">>
       /\ futures[k].extract.content # EmptyText
       /\ futures[k].extract.content # futures[k].entry.page.primary

\* The entries of the loop order that have a link no earlier entry has.
RECURSIVE Survivors(_, _)
Survivors(order, n) ==
    IF n = 0 THEN <<>>
    ELSE Survivors(order, n - 1)
         \o (IF /\ order[n].link # ""
                /\ \A k \in 1..(n - 1) : order[k].link # order[n].link
             THEN <<order[n]>> ELSE <<>>)

Occurrences(seq, x) ==
    Cardinality({i \in 1..Len(seq) : seq[i] = x})

\* The run went on to lines 213-224: it returned, or its final sort raised.
PastCollection ==
    /\ pc = "done"
    /\ ~(result.kind = "raise" /\ result.exception = "OverflowError")

\* C11: when the run goes on to the zero-match check and the final sort,
\* the tasks submitted are the entries that passed the link and seen_links
\* tests, each once and in loop order, every task has finished and been
\* collected, and matched_articles holds the articles the tasks returned,
\* each once and nothing else.
AllResultsCollected ==
    PastCollection =>
        /\ [k \in 1..Len(futures) |-> futures[k].entry]
              = Survivors(LoopOrder(NumFeeds), Len(LoopOrder(NumFeeds)))
        /\ \A k \in 1..Len(futures) : futures[k].state = "collected"
        /\ Len(matched_articles)
              = Cardinality({k \in 1..Len(futures) : IsArticle(futures[k])})
        /\ \A k \in 1..Len(futures) :
              IsArticle(futures[k]) =>
                 Occurrences(matched_articles, ArticleOfFuture(futures[k])) = 1
        /\ \A i \in 1..Len(matched_articles) :
              \E k \in 1..Len(futures) :
                 /\ IsArticle(futures[k])
                 /\ ArticleOfFuture(futures[k]) = matched_articles[i]

\* A run past the collection whose results were collected out of submission
\* order, with at least two articles, a task that returned None and an entry
\* that was skipped as a duplicate.
AllResultsWitness ==
    /\ PastCollection
    /\ Len(matched_articles) >= 2
    /\ matched_articles # ArticlesInSubmissionOrder(Len(futures))
    /\ \E k \in 1..Len(futures) : futures[k].outcome.kind = "none"
    /\ Len(futures) < Len(LoopOrder(NumFeeds))

\* C12: every returned article has at least one occurrence of a keyword in
\* its title or content, and a query without keywords gets the
\* informational record, not articles.
KeywordMatchRequired ==
    /\ (pc = "done" /\ result.kind = "articles") =>
          \A i \in 1..Len(result.articles) :
             result.articles[i].match_details.title_matches
                + result.articles[i].match_details.content_matches >= 1
    /\ (Returned /\ Keywords(query) = <<>>) => result.kind = "message"

====
